---- MODULE Spec2Model ----
(***************************************************************************)
(* Model of the OpenPanel tracking SDK (src/src/sdk/mod.rs).               *)
(*                                                                         *)
(* A Tracker is configured by builder calls and then used through the      *)
(* tracking calls.  A tracking call builds a JSON envelope, hands it to    *)
(* send_request, which issues one POST, and returns what the transport     *)
(* gives back.  The HTTP transport (reqwest) is the environment: it        *)
(* answers a request in flight with a response or with a failure.          *)
(*                                                                         *)
(* JSON documents are modelled by their structure: an object is a function *)
(* from member names to values, a JSON string is a string, a JSON number   *)
(* an integer.  Rust strings are strings; HashMap<String, String> is a     *)
(* function from a finite set of keys to strings.                          *)
(***************************************************************************)
EXTENDS Integers, Sequences, FiniteSets, TLC

VARIABLES
    api_url,          \* Tracker.api_url
    client_id,        \* Tracker.client_id
    client_secret,    \* Tracker.client_secret
    headers,          \* Tracker.headers: lower-cased header name -> value
    global_props,     \* Tracker.global_props
    disabled,         \* Tracker.disabled
    built,            \* the header builder calls that made the header map, in order
    retired_keys,     \* the keys of earlier global sets that global_props lacks
    pc,               \* "idle", "awaiting" (a request is in flight), "reading" (the
                      \* response is there, its body is being read), "done", "dropped"
    call,             \* the call in progress or last completed, with its arguments
    request,          \* the request handed to the transport by that call, or None
    transport_calls,  \* number of requests that call has handed to the transport
    reply,            \* what the transport answered, or None
    result            \* what the call returned, or None

tracker ==
    <<api_url, client_id, client_secret, headers, global_props, disabled, built,
      retired_keys>>
vars == <<api_url, client_id, client_secret, headers, global_props, disabled, built,
          retired_keys, pc, call, request, transport_calls, reply, result>>

---------------------------------------------------------------------------
(* Bounds of the model                                                     *)

MaxBuilderCalls == 2
MaxAmount == 1
AmountStep == 100
MaxDelta == 1

---------------------------------------------------------------------------
(* Option, Result and the error kinds of TrackerError                      *)

None == [tag |-> "None"]
Some(v) == [tag |-> "Some", v |-> v]

TrackerError ==
    {"EnvVar", "Env", "NotAuthorized", "TooManyRequests", "Internal", "Request",
     "Serializing", "HeaderName", "HeaderValue", "Disabled", "Filtered"}

Err(e) == [tag |-> "Err", error |-> e]
OkResponse(r) == [tag |-> "Ok", response |-> r]
OkString(s) == [tag |-> "Ok", string |-> s]
OkMap(m) == [tag |-> "Ok", map |-> m]

---------------------------------------------------------------------------
(* Inputs                                                                  *)

ApiUrls == {"https://op.test/track"}
ClientIds == {"cid", "c\nid"}
ClientSecrets == {"secret"}

Keys == {"name", "amount"}
Vals == {"x", "y"}
EmptyMap == [k \in {} |-> ""]
PropSets == UNION {[D -> Vals] : D \in SUBSET Keys}
OptPropSets == {None} \cup {Some(p) : p \in PropSets}

\* Filter closures: |properties| properties.contains_key(key)
FilterKeys == {"name", "not-existing"}
Filters == {[contains_key |-> k] : k \in FilterKeys}
OptFilters == {None} \cup {Some(f) : f \in Filters}
ApplyFilter(f, properties) == f.contains_key \in DOMAIN properties

Events == {"test_event"}
ProfileIds == {"p1"}
PropertyNames == {"visits"}
Deltas == (-MaxDelta) .. MaxDelta
Amounts == {a * AmountStep : a \in (-MaxAmount) .. MaxAmount}
Users ==
    {[profile_id |-> "p1", email |-> "rust@test.com", first_name |-> "Rust",
      last_name |-> "Tester", properties |-> p] : p \in PropSets}

HeaderKeys == {"Content-Type", "test", "Test", "bad name"}
HeaderVals == {"a", "b", "c\nd"}

\* Responses of the transport
Statuses == {200, 401, 429, 500}
PostBodies == {[t |-> "text", text |-> "ok"]}
JsonScalars ==
    {[t |-> "string", s |-> "abc"], [t |-> "string", s |-> ""], [t |-> "number", n |-> 1]}
BodyKeys == {"deviceId", "sessionId"}
JsonObjects == UNION {[D -> JsonScalars] : D \in SUBSET BodyKeys}
GetStatuses == {200, 500}
GetBodies ==
    {[t |-> "malformed"], [t |-> "array"]}
        \cup {[t |-> "object", members |-> m] : m \in JsonObjects}

---------------------------------------------------------------------------
(* Conversions                                                             *)

\* HashMap::extend: every entry of other is inserted, replacing an entry of
\* the same key.
Extend(m, other) ==
    [k \in DOMAIN m \cup DOMAIN other |-> IF k \in DOMAIN other THEN other[k] ELSE m[k]]

\* i64::to_string
Digit == <<"0", "1", "2", "3", "4", "5", "6", "7", "8", "9">>
RECURSIVE DecNat(_)
DecNat(n) == IF n < 10 THEN Digit[n + 1] ELSE DecNat(n \div 10) \o Digit[(n % 10) + 1]
i64_to_string(n) == IF n < 0 THEN "-" \o DecNat(-n) ELSE DecNat(n)

\* #[serde(rename_all = "lowercase")] on TrackType
TrackTypeTag(t) ==
    CASE t = "Decrement" -> "decrement"
      [] t = "Identify" -> "identify"
      [] t = "Increment" -> "increment"
      [] t = "Track" -> "track"

\* #[serde(rename_all = "camelCase")] on IdentifyUser
SerializeUser(user) ==
    [profileId |-> user.profile_id, email |-> user.email, firstName |-> user.first_name,
     lastName |-> user.last_name, properties |-> user.properties]

\* HeaderName::from_str: the name is lower-cased; a name with a character
\* that is no token character is refused.
LowerCase(s) ==
    CASE s = "Content-Type" -> "content-type"
      [] s = "Test" -> "test"
      [] OTHER -> s
HeaderNameFromStr(s) ==
    IF s \in {"bad name"} THEN Err("HeaderName") ELSE OkString(LowerCase(s))

\* str::parse::<HeaderValue>: a value with a control character is refused.
ParseHeaderValue(s) ==
    IF s \in {"c\nd", "c\nid"} THEN Err("HeaderValue") ELSE OkString(s)

\* Variant: a name that is present keeps its value.
HeaderInsertKeepFirst(h, name, value) == Extend(name :> value, h)

\* HeaderMap::insert(name, value): replaces the value of the name.
HeaderInsert(h, name, value) == Extend(h, name :> value)

\* One `self.headers.insert(HeaderName::from_str(key)?, value.parse()?)` applied
\* to the outcome r of the statements before it: `?` returns the first error,
\* the name's before the value's.
InsertHeader(r, key, value) ==
    IF r.tag = "Err" THEN r
    ELSE LET name == HeaderNameFromStr(key)
             val == ParseHeaderValue(value)
         IN  IF name.tag = "Err" THEN name
             ELSE IF val.tag = "Err" THEN val
             ELSE OkMap(HeaderInsert(r.map, name.string, val.string))

\* serde_json::from_str::<HashMap<String, String>>(&body): the body has to be
\* a JSON object all of whose members are JSON strings.
FromStrStringMap(body) ==
    IF body.t # "object" THEN Err("Serializing")
    ELSE IF \E k \in DOMAIN body.members : body.members[k].t # "string"
         THEN Err("Serializing")
         ELSE OkMap([k \in DOMAIN body.members |-> body.members[k].s])

---------------------------------------------------------------------------
(* The Tracker                                                             *)

NoCall == [op |-> "none"]

\* No call borrows the Tracker: a builder may consume it, a call may start.
Ready == pc = "idle"

Init ==
    /\ api_url \in ApiUrls
    /\ client_id \in ClientIds
    /\ client_secret \in ClientSecrets
    /\ headers = EmptyMap
    /\ global_props = EmptyMap
    /\ disabled = FALSE
    /\ built = <<>>
    /\ retired_keys = {}
    /\ pc = "idle"
    /\ call = NoCall
    /\ request = None
    /\ transport_calls = 0
    /\ reply = None
    /\ result = None

\* Tracker::try_new_from_env, after a builder call failed and dropped the
\* Tracker it had consumed: the environment is read again.
try_new_from_env ==
    /\ pc = "dropped"
    /\ headers' = EmptyMap
    /\ global_props' = EmptyMap
    /\ disabled' = FALSE
    /\ built' = <<>>
    /\ retired_keys' = {}
    /\ pc' = "idle"
    /\ call' = NoCall
    /\ request' = None
    /\ transport_calls' = 0
    /\ reply' = None
    /\ result' = None
    /\ UNCHANGED <<api_url, client_id, client_secret>>

\* A builder call that returns the Tracker: no call is in progress on it.
Rebuilt ==
    /\ pc' = "idle"
    /\ call' = NoCall
    /\ request' = None
    /\ transport_calls' = 0
    /\ reply' = None
    /\ result' = None

\* The outcome r of the header builder call c: Ok(self) with the new header
\* map, or the error, with which the consumed Tracker is dropped.
HeadersBuilt(r, c) ==
    IF r.tag = "Ok"
    THEN /\ headers' = r.map
         /\ built' = Append(built, c)
         /\ Rebuilt
         /\ UNCHANGED <<api_url, client_id, client_secret, global_props, disabled,
                        retired_keys>>
    ELSE /\ headers' = EmptyMap
         /\ global_props' = EmptyMap
         /\ disabled' = FALSE
         /\ built' = <<>>
         /\ retired_keys' = {}
         /\ pc' = "dropped"
         /\ call' = NoCall
         /\ request' = None
         /\ transport_calls' = 0
         /\ reply' = None
         /\ result' = r
         /\ UNCHANGED <<api_url, client_id, client_secret>>

\* The header map with_default_headers returns for header map h.
DefaultHeaders(h) ==
    InsertHeader(
        InsertHeader(
            InsertHeader(OkMap(h), "Content-Type", "application/json"),
            "openpanel-client-id", client_id),
        "openpanel-client-secret", client_secret)

\* The header map with_header(key, value) returns for header map h.
CustomHeader(h, key, value) == InsertHeader(OkMap(h), key, value)

with_default_headers ==
    /\ Ready
    /\ Len(built) < MaxBuilderCalls
    /\ HeadersBuilt(DefaultHeaders(headers), [op |-> "with_default_headers"])

with_header ==
    /\ Ready
    /\ Len(built) < MaxBuilderCalls
    /\ \E key \in HeaderKeys, value \in HeaderVals :
          HeadersBuilt(CustomHeader(headers, key, value),
                       [op |-> "with_header", key |-> key, value |-> value])

\* Variant: the properties are added to the global set that is there.
set_global_properties_merging(properties) ==
    /\ global_props' = Extend(global_props, properties)
    /\ retired_keys' = (retired_keys \cup DOMAIN global_props) \ DOMAIN properties
    /\ Rebuilt
    /\ UNCHANGED <<api_url, client_id, client_secret, headers, disabled, built>>

\* with_global_properties(properties): `self.global_props = properties`.  The
\* keys the Tracker had as global keys and the new set does not have are
\* retired.
set_global_properties(properties) ==
    /\ global_props' = properties
    /\ retired_keys' = (retired_keys \cup DOMAIN global_props) \ DOMAIN properties
    /\ Rebuilt
    /\ UNCHANGED <<api_url, client_id, client_secret, headers, disabled, built>>

with_global_properties ==
    /\ Ready
    /\ \E properties \in PropSets : set_global_properties(properties)

disable ==
    /\ Ready
    /\ disabled' = TRUE
    /\ Rebuilt
    /\ UNCHANGED <<api_url, client_id, client_secret, headers, global_props, built,
                   retired_keys>>

---------------------------------------------------------------------------
(* Tracking calls                                                          *)

\* Variant: the per-call value is kept on a key collision.
create_properties_local_wins(properties) ==
    IF properties.tag = "Some"
    THEN Extend(global_props, properties.v)
    ELSE global_props

\* Variant: the per-call properties are replaced, not extended.
create_properties_globals_only(properties) == global_props

\* Extend given properties with global properties
create_properties_with_globals(properties) ==
    IF properties.tag = "Some"
    THEN Extend(properties.v, global_props)
    ELSE global_props

\* The call returns r without a request.
Returned(r) ==
    /\ pc' = "done"
    /\ request' = None
    /\ transport_calls' = 0
    /\ reply' = None
    /\ result' = r

\* Variant: the disabled flag is not looked at.
send_request_unchecked(payload) ==
    /\ pc' = "awaiting"
    /\ request' = [method |-> "POST", url |-> api_url, headers |-> headers,
                   body |-> payload]
    /\ transport_calls' = 1
    /\ reply' = None
    /\ result' = None

\* Actually send the request to the API: one POST of the payload, unless the
\* Tracker is disabled.  The payload is a serde_json::Value with string keys,
\* which serde_json::to_string never refuses.
send_request(payload) ==
    IF disabled
    THEN Returned(Err("Disabled"))
    ELSE /\ pc' = "awaiting"
         /\ request' = [method |-> "POST", url |-> api_url, headers |-> headers,
                        body |-> payload]
         /\ transport_calls' = 1
         /\ reply' = None
         /\ result' = None

TrackPayload(event, properties) ==
    [type |-> TrackTypeTag("Track"),
     payload |-> [name |-> event,
                  properties |-> create_properties_with_globals(properties)]]

\* Variant: the filter sees the per-call properties alone.
VetoedOnLocal(properties, filter) ==
    /\ filter.tag = "Some"
    /\ ApplyFilter(filter.v, IF properties.tag = "Some" THEN properties.v ELSE EmptyMap)

\* Whether the filter, if any, vetoes the event.
Vetoed(properties, filter) ==
    /\ filter.tag = "Some"
    /\ ApplyFilter(filter.v, create_properties_with_globals(properties))

track ==
    /\ Ready
    /\ \E event \in Events, properties \in OptPropSets, filter \in OptFilters :
          /\ call' = [op |-> "track", event |-> event, properties |-> properties,
                      filter |-> filter]
          /\ IF Vetoed(properties, filter)
             THEN Returned(Err("Filtered"))
             ELSE send_request(TrackPayload(event, properties))
    /\ UNCHANGED tracker

IdentifyPayload(user) ==
    [type |-> TrackTypeTag("Identify"),
     payload |-> SerializeUser(
         [user EXCEPT !.properties = create_properties_with_globals(Some(user.properties))])]

identify ==
    /\ Ready
    /\ \E user \in Users :
          /\ call' = [op |-> "identify", user |-> user]
          /\ send_request(IdentifyPayload(user))
    /\ UNCHANGED tracker

\* Variant: decrement negates the value.
DecrementPayloadNegated(profile_id, property, value) ==
    [type |-> TrackTypeTag("Decrement"),
     payload |-> [profileId |-> profile_id, property |-> property, value |-> -value]]

DecrementPayload(profile_id, property, value) ==
    [type |-> TrackTypeTag("Decrement"),
     payload |-> [profileId |-> profile_id, property |-> property, value |-> value]]

decrement ==
    /\ Ready
    /\ \E profile_id \in ProfileIds, property \in PropertyNames, value \in Deltas :
          /\ call' = [op |-> "decrement", profile_id |-> profile_id,
                      property |-> property, value |-> value]
          /\ send_request(DecrementPayload(profile_id, property, value))
    /\ UNCHANGED tracker

IncrementPayload(profile_id, property, value) ==
    [type |-> TrackTypeTag("Increment"),
     payload |-> [profileId |-> profile_id, property |-> property, value |-> value]]

increment ==
    /\ Ready
    /\ \E profile_id \in ProfileIds, property \in PropertyNames, value \in Deltas :
          /\ call' = [op |-> "increment", profile_id |-> profile_id,
                      property |-> property, value |-> value]
          /\ send_request(IncrementPayload(profile_id, property, value))
    /\ UNCHANGED tracker

\* Variant: the global properties are applied over the injected amount.
RevenuePayloadGlobalsLast(amount, properties) ==
    LET local_props == "amount" :> i64_to_string(amount)
    IN  [type |-> TrackTypeTag("Track"),
         payload |-> [name |-> "revenue",
                      amount |-> amount,
                      properties |->
                          Extend(Extend(IF properties.tag = "Some" THEN properties.v
                                        ELSE EmptyMap, local_props), global_props)]]

\* Variant: the amount is placed at the top level of the payload only.
RevenuePayloadNoInject(amount, properties) ==
    [type |-> TrackTypeTag("Track"),
     payload |-> [name |-> "revenue",
                  amount |-> amount,
                  properties |-> create_properties_with_globals(properties)]]

RevenuePayload(amount, properties) ==
    LET local_props == "amount" :> i64_to_string(amount)
    IN  [type |-> TrackTypeTag("Track"),
         payload |-> [name |-> "revenue",
                      amount |-> amount,
                      properties |->
                          Extend(create_properties_with_globals(properties), local_props)]]

revenue ==
    /\ Ready
    /\ \E amount \in Amounts, properties \in OptPropSets :
          /\ call' = [op |-> "revenue", amount |-> amount, properties |-> properties]
          /\ send_request(RevenuePayload(amount, properties))
    /\ UNCHANGED tracker

DeviceIdUrl == api_url \o "/device-id"

\* fetch_device_id up to the await of the GET
fetch_device_id ==
    /\ Ready
    /\ call' = [op |-> "fetch_device_id"]
    /\ IF disabled
       THEN Returned(Err("Disabled"))
       ELSE /\ pc' = "awaiting"
            /\ request' = [method |-> "GET", url |-> DeviceIdUrl, headers |-> headers]
            /\ transport_calls' = 1
            /\ reply' = None
            /\ result' = None
    /\ UNCHANGED tracker

\* Variant: a missing deviceId is an error.
DeviceIdOfMissingIsError(body) ==
    LET json == FromStrStringMap(body)
    IN  IF json.tag = "Err" THEN json
        ELSE IF "deviceId" \notin DOMAIN json.map THEN Err("Serializing")
        ELSE OkString(json.map["deviceId"])

\* The device id fetch_device_id returns for the body read from the
\* response.
DeviceIdOf(body) ==
    LET json == FromStrStringMap(body)
    IN  IF json.tag = "Err" THEN json
        ELSE IF "deviceId" \notin DOMAIN json.map THEN OkString("")
        ELSE OkString(json.map["deviceId"])

---------------------------------------------------------------------------
(* The transport                                                           *)

TransportResponse(r) == [tag |-> "response", response |-> r]
TransportError == [tag |-> "error"]

\* Variant: the statuses 401, 429 and 5xx become the errors NotAuthorized,
\* TooManyRequests and Internal.
post_completed_status_errors ==
    /\ pc = "awaiting"
    /\ request.method = "POST"
    /\ \E status \in Statuses, body \in PostBodies :
          LET res == [status |-> status, body |-> body]
          IN  /\ reply' = TransportResponse(res)
              /\ result' = CASE status = 401 -> Err("NotAuthorized")
                              [] status = 429 -> Err("TooManyRequests")
                              [] status >= 500 -> Err("Internal")
                              [] OTHER -> OkResponse(res)
    /\ pc' = "done"
    /\ UNCHANGED <<tracker, call, request, transport_calls>>

\* send_request after the await: the response is returned as it is.
post_completed ==
    /\ pc = "awaiting"
    /\ request.method = "POST"
    /\ \E status \in Statuses, body \in PostBodies :
          LET res == [status |-> status, body |-> body]
          IN  /\ reply' = TransportResponse(res)
              /\ result' = OkResponse(res)
    /\ pc' = "done"
    /\ UNCHANGED <<tracker, call, request, transport_calls>>

\* fetch_device_id after `.send().await?`: the response is there, and the call
\* waits a second time, in `res.text().await?`, for its body.
get_responded ==
    /\ pc = "awaiting"
    /\ request.method = "GET"
    /\ \E status \in GetStatuses : reply' = TransportResponse([status |-> status])
    /\ pc' = "reading"
    /\ UNCHANGED <<tracker, call, request, transport_calls, result>>

\* fetch_device_id after `res.text().await?`: the body is decoded.
body_read ==
    /\ pc = "reading"
    /\ \E body \in GetBodies :
          /\ reply' = TransportResponse([status |-> reply.response.status, body |-> body])
          /\ result' = DeviceIdOf(body)
    /\ pc' = "done"
    /\ UNCHANGED <<tracker, call, request, transport_calls>>

\* `res.text().await?` when reading the body fails: reqwest::Error becomes
\* TrackerError::Request.
body_read_failed ==
    /\ pc = "reading"
    /\ reply' = TransportResponse([status |-> reply.response.status,
                                   body |-> [t |-> "unreadable"]])
    /\ result' = Err("Request")
    /\ pc' = "done"
    /\ UNCHANGED <<tracker, call, request, transport_calls>>

\* `.send().await?` when the transport fails: reqwest::Error becomes
\* TrackerError::Request.
transport_failed ==
    /\ pc = "awaiting"
    /\ reply' = TransportError
    /\ result' = Err("Request")
    /\ pc' = "done"
    /\ UNCHANGED <<tracker, call, request, transport_calls>>

\* The caller takes the result of the call; the borrow of the Tracker ends.
returned ==
    /\ pc = "done"
    /\ pc' = "idle"
    /\ call' = NoCall
    /\ request' = None
    /\ transport_calls' = 0
    /\ reply' = None
    /\ result' = None
    /\ UNCHANGED tracker

Next ==
    \/ try_new_from_env
    \/ with_default_headers
    \/ with_header
    \/ with_global_properties
    \/ disable
    \/ track
    \/ identify
    \/ decrement
    \/ increment
    \/ revenue
    \/ fetch_device_id
    \/ post_completed
    \/ get_responded
    \/ body_read
    \/ body_read_failed
    \/ transport_failed
    \/ returned

Spec == Init /\ [][Next]_vars

---------------------------------------------------------------------------
(* Properties                                                              *)

\* An envelope has been handed to the transport by the call.
Dispatched == request # None /\ request.method = "POST"
Envelope == request.body

\* The per-call properties of the call, where it has any.
CallerProps ==
    CASE call.op = "identify" -> call.user.properties
      [] call.op \in {"track", "revenue"} /\ call.properties.tag = "Some" -> call.properties.v
      [] OTHER -> EmptyMap

\* The filter of the call is there and returns true for the union of the
\* per-call and the global properties.
FilterTrueOnMerged ==
    /\ call.op = "track"
    /\ call.filter.tag = "Some"
    /\ call.filter.v.contains_key \in DOMAIN CallerProps \cup DOMAIN global_props

\* C1: for per-call properties P and global properties G that share a key k
\* with different values, the properties in the envelope sent by track and
\* by identify have the value G[k] at k.
C1_GlobalOverridesLocal ==
    (Dispatched /\ call.op \in {"track", "identify"}) =>
        \A k \in DOMAIN CallerProps \cap DOMAIN global_props :
            CallerProps[k] # global_props[k] =>
                /\ k \in DOMAIN Envelope.payload.properties
                /\ Envelope.payload.properties[k] = global_props[k]

C1_Witness ==
    /\ Dispatched
    /\ call.op = "identify"
    /\ call.user.properties = ("name" :> "x")
    /\ global_props = ("name" :> "y")
    /\ Envelope.payload.properties = ("name" :> "y")

\* C2: a track call whose filter returns true for the merged properties
\* (per-call merged with global) has returned the Filtered error and has
\* handed no request to the transport.
C2_FilteredBeforeIO ==
    FilterTrueOnMerged =>
        /\ pc = "done"
        /\ result = Err("Filtered")
        /\ transport_calls = 0
        /\ request = None
        /\ reply = None

C2_Witness ==
    /\ call.op = "track"
    /\ ~disabled
    /\ call.filter = Some([contains_key |-> "name"])
    /\ "name" \notin DOMAIN CallerProps
    /\ "name" \in DOMAIN global_props
    /\ result = Err("Filtered")

\* C3 as stated: on a disabled Tracker every tracking call and
\* fetch_device_id fails with Disabled, whatever the filter returns, and
\* issues no request.
C3_Original ==
    (disabled /\ call.op # "none") =>
        /\ result = Err("Disabled")
        /\ transport_calls = 0

\* C3 (amended): on a disabled Tracker every tracking call and
\* fetch_device_id fails without a request being issued: with Filtered when
\* it is a track call whose filter returns true for the merged properties,
\* with Disabled otherwise.
C3_DisabledNoRequest ==
    (disabled /\ call.op # "none") =>
        /\ pc = "done"
        /\ transport_calls = 0
        /\ request = None
        /\ reply = None
        /\ result = IF FilterTrueOnMerged THEN Err("Filtered") ELSE Err("Disabled")

C3_Witness ==
    /\ disabled
    /\ call.op = "track"
    /\ call.filter.tag = "Some"
    /\ ~FilterTrueOnMerged
    /\ result = Err("Disabled")
    /\ transport_calls = 0

\* C4 as stated: the properties of every dispatched envelope are the union
\* of the caller-supplied properties (on revenue, with the injected amount)
\* and the global properties, the global value winning on every collision,
\* a global key "amount" on a revenue call included.
C4_Original ==
    (Dispatched /\ call.op \in {"track", "identify", "revenue"}) =>
        LET supplied == IF call.op = "revenue"
                        THEN Extend(CallerProps, "amount" :> i64_to_string(call.amount))
                        ELSE CallerProps
            props == Envelope.payload.properties
        IN  /\ DOMAIN props = DOMAIN supplied \cup DOMAIN global_props
            /\ \A k \in DOMAIN props :
                  props[k] = IF k \in DOMAIN global_props THEN global_props[k]
                             ELSE supplied[k]

\* C4 (amended): the properties of every dispatched envelope have exactly
\* the caller-supplied and the global keys (on revenue, and the key
\* "amount"); the global value wins on a collision of a caller-supplied with
\* a global key, except that on revenue the key "amount" has the decimal
\* string of the amount, whatever the caller or the globals give for it.
C4_UnionGlobalWins ==
    (Dispatched /\ call.op \in {"track", "identify", "revenue"}) =>
        LET props == Envelope.payload.properties
            injected == IF call.op = "revenue" THEN {"amount"} ELSE {}
        IN  /\ DOMAIN props = DOMAIN CallerProps \cup DOMAIN global_props \cup injected
            /\ \A k \in DOMAIN props :
                  props[k] = IF k \in injected THEN i64_to_string(call.amount)
                             ELSE IF k \in DOMAIN global_props THEN global_props[k]
                             ELSE CallerProps[k]

C4_Witness ==
    /\ Dispatched
    /\ call.op = "revenue"
    /\ call.amount = 100
    /\ "amount" \in DOMAIN global_props
    /\ "name" \in DOMAIN CallerProps \cap DOMAIN global_props
    /\ CallerProps["name"] # global_props["name"]
    /\ Envelope.payload.properties["amount"] = "100"
    /\ Envelope.payload.properties["name"] = global_props["name"]

\* C5: when the per-call and the global properties have no key in common,
\* the properties sent by track are their union, every key with its value;
\* when track is given no properties, the properties sent are the global
\* properties.
C5_DisjointUnion ==
    (Dispatched /\ call.op = "track") =>
        LET props == Envelope.payload.properties
        IN  /\ (call.properties.tag = "Some"
                  /\ DOMAIN call.properties.v \cap DOMAIN global_props = {}) =>
                    /\ DOMAIN props = DOMAIN call.properties.v \cup DOMAIN global_props
                    /\ \A k \in DOMAIN call.properties.v : props[k] = call.properties.v[k]
                    /\ \A k \in DOMAIN global_props : props[k] = global_props[k]
            /\ call.properties = None => props = global_props

C5_Witness ==
    /\ Dispatched
    /\ call.op = "track"
    /\ call.properties = Some("name" :> "x")
    /\ global_props = ("amount" :> "y")
    /\ Envelope.payload.properties = [k \in {"name", "amount"} |->
                                         IF k = "name" THEN "x" ELSE "y"]

\* C6: revenue(amount, properties) sends an envelope of type "track" whose
\* payload has the name "revenue", the integer amount at its top level, and
\* properties that hold every caller-supplied key (with the caller's value
\* unless the globals or the injected amount replace it) and the key
\* "amount" with the decimal string of the amount.
C6_RevenueEnvelope ==
    (Dispatched /\ call.op = "revenue") =>
        LET props == Envelope.payload.properties
        IN  /\ Envelope.type = "track"
            /\ DOMAIN Envelope = {"type", "payload"}
            /\ DOMAIN Envelope.payload = {"name", "amount", "properties"}
            /\ Envelope.payload.name = "revenue"
            /\ Envelope.payload.amount = call.amount
            /\ \A k \in DOMAIN CallerProps :
                  /\ k \in DOMAIN props
                  /\ k \notin DOMAIN global_props \cup {"amount"} => props[k] = CallerProps[k]
            /\ "amount" \in DOMAIN props
            /\ props["amount"] = i64_to_string(call.amount)
            /\ call.amount = 100 => props["amount"] = "100"
            /\ call.amount = 0 => props["amount"] = "0"
            /\ call.amount = -100 => props["amount"] = "-100"

C6_Witness ==
    /\ Dispatched
    /\ call.op = "revenue"
    /\ call.amount = 100
    /\ call.properties = Some("name" :> "x")
    /\ global_props = EmptyMap
    /\ Envelope.payload.amount = 100
    /\ Envelope.payload.properties = [k \in {"name", "amount"} |->
                                         IF k = "name" THEN "x" ELSE "100"]

\* The response the transport gave to the GET of fetch_device_id, once the
\* call on an enabled Tracker has returned with the body read.
FetchAnswered ==
    /\ call.op = "fetch_device_id"
    /\ pc = "done"
    /\ reply.tag = "response"
    /\ reply.response.body.t # "unreadable"
FetchBody == reply.response.body

\* One GET to the device-id sub-path of the endpoint, with the configured
\* headers.
FetchIssuesOneGet ==
    (call.op = "fetch_device_id" /\ ~disabled) =>
        /\ transport_calls = 1
        /\ request = [method |-> "GET", url |-> api_url \o "/device-id",
                      headers |-> headers]

\* C7 as stated: the value at deviceId when the body is a JSON object with
\* that key, the empty string when it is a JSON object without it, and a
\* serialization error when the body is no JSON object.
C7_Original ==
    /\ FetchIssuesOneGet
    /\ FetchAnswered =>
          IF FetchBody.t = "object"
          THEN IF "deviceId" \in DOMAIN FetchBody.members
               THEN /\ result.tag = "Ok"
                    /\ FetchBody.members["deviceId"].t = "string" =>
                          result = OkString(FetchBody.members["deviceId"].s)
               ELSE result = OkString("")
          ELSE result = Err("Serializing")

\* Every member of the JSON object is a JSON string.
AllStrings(members) == \A k \in DOMAIN members : members[k].t = "string"

\* C7 (amended): on an enabled Tracker fetch_device_id issues one GET to the
\* device-id sub-path; for the body read from the response it returns the
\* value at deviceId when the body is a JSON object of string members with
\* that key, the empty string as a success when it is a JSON object of
\* string members without it, and a serialization error when the body is not
\* a JSON object of string members (malformed, no object, or an object with
\* a member that is no string).  It returns nothing before the body is read.
C7_DeviceId ==
    /\ FetchIssuesOneGet
    /\ (call.op = "fetch_device_id" /\ pc \in {"awaiting", "reading"}) => result = None
    /\ FetchAnswered =>
          IF FetchBody.t = "object" /\ AllStrings(FetchBody.members)
          THEN IF "deviceId" \in DOMAIN FetchBody.members
               THEN result = OkString(FetchBody.members["deviceId"].s)
               ELSE result = OkString("")
          ELSE result = Err("Serializing")

C7_Witness ==
    /\ FetchAnswered
    /\ FetchBody = [t |-> "object", members |-> [k \in {"sessionId"} |->
                                                    [t |-> "string", s |-> "abc"]]]
    /\ result = OkString("")

\* The outcome of header builder call c on the outcome r of the calls
\* before it
ApplyBuilder(r, c) ==
    IF r.tag = "Err" THEN r
    ELSE IF c.op = "with_default_headers" THEN DefaultHeaders(r.map)
    ELSE CustomHeader(r.map, c.key, c.value)

\* The outcome of the first n calls of seq on the empty header map
RECURSIVE Replay(_, _)
Replay(seq, n) ==
    IF n = 0 THEN OkMap(EmptyMap) ELSE ApplyBuilder(Replay(seq, n - 1), seq[n])

\* The orders in which the calls of built can be made: position i of the
\* order f has the call built[f[i]].
Orders ==
    {f \in [1 .. Len(built) -> 1 .. Len(built)] :
        \A i, j \in 1 .. Len(built) : i # j => f[i] # f[j]}
Reordered(f) == [i \in 1 .. Len(built) |-> built[f[i]]]

\* with_header calls for the same header name (names compare without case)
SameName(c1, c2) ==
    /\ c1.op = "with_header"
    /\ c2.op = "with_header"
    /\ LowerCase(c1.key) = LowerCase(c2.key)

\* The names with_default_headers sets
DefaultNames == {"content-type", "openpanel-client-id", "openpanel-client-secret"}

\* with_default_headers and a with_header call for a name it sets
TouchesDefault(c1, c2) ==
    \/ /\ c1.op = "with_default_headers"
       /\ c2.op = "with_header"
       /\ LowerCase(c2.key) \in DefaultNames
    \/ /\ c2.op = "with_default_headers"
       /\ c1.op = "with_header"
       /\ LowerCase(c1.key) \in DefaultNames

\* The order f keeps the calls of built that with_header makes for one name
\* in the order they were made in.
KeepsSameName(f) ==
    \A i, j \in 1 .. Len(built) :
        (i < j /\ SameName(built[f[i]], built[f[j]])) => f[i] < f[j]

\* The order f also keeps with_default_headers and the with_header calls for
\* the names it sets in the order they were made in.
KeepsOverrides(f) ==
    \A i, j \in 1 .. Len(built) :
        (i < j /\ (SameName(built[f[i]], built[f[j]])
                      \/ TouchesDefault(built[f[i]], built[f[j]]))) => f[i] < f[j]

\* The calls of built made in the order f give the header map of the Tracker.
SameHeaders(f) ==
    LET r == Replay(Reordered(f), Len(built))
    IN  r.tag = "Ok" /\ r.map = headers

\* The header named by a with_header call has the value of that call unless
\* a later with_header call names it.
LaterWithHeaderWins ==
    \A i \in 1 .. Len(built) :
        (/\ built[i].op = "with_header"
         /\ \A j \in (i + 1) .. Len(built) :
               ~SameName(built[i], built[j]) /\ ~TouchesDefault(built[i], built[j]))
            => /\ LowerCase(built[i].key) \in DOMAIN headers
               /\ headers[LowerCase(built[i].key)] = built[i].value

\* C8 as stated: the header map does not depend on the order of the builder
\* calls that made it, as long as the with_header calls for one name are
\* kept in their order.
C8_Original ==
    Ready => \A f \in Orders : KeepsSameName(f) => SameHeaders(f)

\* C8 (amended): the header map does not depend on the order of the builder
\* calls that made it, as long as the with_header calls for one name, and
\* with_default_headers and the with_header calls for one of the three
\* names it sets, are kept in their order; of such calls the last one made
\* decides the value of the header.
C8_HeaderOrder ==
    Ready =>
        /\ \A f \in Orders : KeepsOverrides(f) => SameHeaders(f)
        /\ LaterWithHeaderWins
        /\ \A i \in 1 .. Len(built) :
              (/\ built[i].op = "with_default_headers"
               /\ \A j \in (i + 1) .. Len(built) : ~TouchesDefault(built[i], built[j]))
                  => /\ DefaultNames \subseteq DOMAIN headers
                     /\ headers["content-type"] = "application/json"
                     /\ headers["openpanel-client-id"] = client_id
                     /\ headers["openpanel-client-secret"] = client_secret

C8_Witness ==
    /\ Ready
    /\ built = <<[op |-> "with_header", key |-> "Test", value |-> "b"],
                 [op |-> "with_default_headers"]>>
    /\ DOMAIN headers = DefaultNames \cup {"test"}
    /\ headers["test"] = "b"
    /\ headers["content-type"] = "application/json"

\* C9: increment and decrement send envelopes of type "increment" and
\* "decrement" whose payload has exactly profileId, property and value, the
\* value being the caller's integer unchanged; no global property is added.
C9_IncrementDecrement ==
    (Dispatched /\ call.op \in {"increment", "decrement"}) =>
        /\ DOMAIN Envelope = {"type", "payload"}
        /\ Envelope.type = call.op
        /\ DOMAIN Envelope.payload = {"profileId", "property", "value"}
        /\ Envelope.payload.profileId = call.profile_id
        /\ Envelope.payload.property = call.property
        /\ Envelope.payload.value = call.value

C9_Witness ==
    /\ Dispatched
    /\ call.op = "decrement"
    /\ call.value = 1
    /\ global_props # EmptyMap
    /\ Envelope.payload.value = 1

\* The call is a tracking call on an enabled Tracker that no filter vetoes.
TrackingCallGoesOut ==
    /\ call.op \in {"track", "identify", "increment", "decrement", "revenue"}
    /\ ~disabled
    /\ ~FilterTrueOnMerged

\* C10: a tracking call on an enabled Tracker that no filter vetoes issues
\* exactly one POST to the configured endpoint with the configured headers;
\* it returns the response of the transport as a success whatever its
\* status, and a Request error when the transport failed, with no second
\* request in either case.
C10_OnePostThenEnd ==
    TrackingCallGoesOut =>
        /\ pc \in {"awaiting", "done"}
        /\ transport_calls = 1
        /\ Dispatched
        /\ request.url = api_url
        /\ request.headers = headers
        /\ pc = "awaiting" => (reply = None /\ result = None)
        /\ pc = "done" =>
              /\ reply.tag \in {"response", "error"}
              /\ reply.tag = "response" => result = OkResponse(reply.response)
              /\ reply.tag = "error" => result = Err("Request")

C10_Witness ==
    /\ TrackingCallGoesOut
    /\ pc = "done"
    /\ transport_calls = 1
    /\ reply.tag = "response"
    /\ reply.response.status = 429
    /\ result = OkResponse(reply.response)

\* The step is the call with_global_properties(B).
GlobalPropertiesSet(B) == Ready /\ set_global_properties(B)

\* A key that was a global key and is none now is in the envelope only when
\* the call supplies it: as a per-call property, or, on revenue, as the
\* amount.
NoRetiredKeySent ==
    (Dispatched /\ call.op \in {"track", "identify", "revenue"}) =>
        \A k \in retired_keys \cap DOMAIN Envelope.payload.properties :
            \/ k \in DOMAIN CallerProps
            \/ call.op = "revenue" /\ k = "amount"

\* C11: with_global_properties(B) leaves the Tracker with the global
\* properties B exactly, whatever set was attached before, and with the
\* headers, the credentials and the disabled flag it had; a key of an
\* earlier global set that B lacks is in no later envelope unless the call
\* supplies it.
C11_GlobalsReplaced ==
    /\ [][\A B \in PropSets :
            GlobalPropertiesSet(B) =>
                /\ global_props' = B
                /\ DOMAIN global_props' = DOMAIN B
                /\ retired_keys' \cap DOMAIN B = {}
                /\ DOMAIN global_props \ DOMAIN B \subseteq retired_keys'
                /\ headers' = headers
                /\ api_url' = api_url
                /\ client_id' = client_id
                /\ client_secret' = client_secret
                /\ disabled' = disabled]_vars
    /\ [](retired_keys \cap DOMAIN global_props = {})
    /\ []NoRetiredKeySent

C11_Witness ==
    /\ Dispatched
    /\ call.op = "track"
    /\ call.properties = Some("amount" :> "x")
    /\ retired_keys = {"name"}
    /\ global_props = ("amount" :> "y")
    /\ disabled = FALSE
    /\ DefaultNames \subseteq DOMAIN headers
    /\ Envelope.payload.properties = ("amount" :> "y")

\* C12 (the module documentation's filter example): a track call on an
\* enabled Tracker with a filter that tests for a key the merged properties
\* do not have returns an error.
C12_DocFilterExample ==
    (/\ call.op = "track"
     /\ ~disabled
     /\ call.filter.tag = "Some"
     /\ call.filter.v.contains_key \notin DOMAIN CallerProps \cup DOMAIN global_props
     /\ pc = "done") => result.tag = "Err"

====
